---- MODULE Spec2Model ----
(***************************************************************************)
(* Model of GmailUnsubscriber (src/main.py): the history store, the mail   *)
(* client calls, and the two batch strategies process_unsubscribes (per    *)
(* message) and process_unsubscribes_by_sender (per sender group).         *)
(*                                                                         *)
(* Strings that the code inspects are sequences of one-character strings,  *)
(* so that lower() and strip() are computed and not assumed.               *)
(***************************************************************************)
EXTENDS Integers, Sequences, FiniteSets, TLC

(* ------------------------------ bounds -------------------------------- *)
\* largest number of messages a search returns
MaxMsgs == 2
\* number of consecutive runs over one history file in SpecRuns
MaxRuns == 2

(* --------------------------- string helpers --------------------------- *)
\* str.lower() on one character
LowerChar(c) ==
  CASE c = "A" -> "a"
    [] c = "B" -> "b"
    [] OTHER -> c

\* str.lower()
Lower(s) == [i \in 1..Len(s) |-> LowerChar(s[i])]

RECURSIVE LStrip(_)
LStrip(s) == IF s # <<>> /\ Head(s) = " " THEN LStrip(Tail(s)) ELSE s

RECURSIVE RStrip(_)
RStrip(s) ==
  IF s # <<>> /\ s[Len(s)] = " " THEN RStrip(SubSeq(s, 1, Len(s) - 1)) ELSE s

\* str.strip()
Strip(s) == RStrip(LStrip(s))

\* sender_key = sender_email.lower().strip()
SenderKey(sender_email) == Strip(Lower(sender_email))

(* ------------------------------ messages ------------------------------ *)
\* address part of the From header, as written by the sender
Froms == { <<"a">>, <<"A", " ">>, <<"b">> }

Mailto == [scheme |-> "mailto", target |-> "m"]
Http1  == [scheme |-> "http", target |-> "u1"]
Http2  == [scheme |-> "https", target |-> "u2"]

\* values of the List-Unsubscribe header: the <...> tokens in order
Headers == { <<Mailto>>, <<Http2, Mailto, Http1>> }

MsgShapes == [from : Froms, hdr : Headers]

MsgIds == 1..MaxMsgs

\* a mailbox as search lists it: message i has id i
Mailboxes ==
  UNION { { [i \in 1..n |-> [id |-> i, from |-> f[i].from, hname |-> "List-Unsubscribe",
                           hdr |-> f[i].hdr, body |-> <<>>]]
            : f \in [1..n -> MsgShapes] } : n \in 0..MaxMsgs }

SeqToSet(s) == { s[i] : i \in 1..Len(s) }

Ids(msgs) == { msgs[i].id : i \in 1..Len(msgs) }

\* get_sender_info: the address of the From header, stripped
get_sender_info(message) == Strip(message.from)

\* header['name'].lower(), for the spellings of header names in use
LowerName(name) ==
  CASE name = "List-Unsubscribe" -> "list-unsubscribe"
    [] name = "LIST-UNSUBSCRIBE" -> "list-unsubscribe"
    [] name = "Subject" -> "subject"
    [] OTHER -> name

\* variant: the header name is compared as written
IsListUnsubscribe_exact(name) == name = "List-Unsubscribe"

\* "if header['name'].lower() == 'list-unsubscribe'"
IsListUnsubscribe(name) == LowerName(name) = "list-unsubscribe"

\* a text the patterns captured: a link, with or without a '>' at its end
Match(text, gt) == [text |-> text, gt |-> gt]

\* the text is of the form http://... or https://... with something after
\* the slashes: what "https?://[^>]+" and "https?://[^\s<>\"]+" ask for
IsHttpUrl(text) == text.scheme \in {"http", "https"} /\ text.target # ""

\* re.findall(r'<(https?://[^>]+)>', header_value) on the <...> tokens
HeaderMatches(tokens) ==
  { Match(t, FALSE) : t \in { u \in SeqToSet(tokens) : IsHttpUrl(u) } }

\* what the five body patterns capture from one place of the body: a bare
\* URL or the value of an href attribute, with or without one of the words
\* unsubscribe / opt-out; the URL patterns stop before '>' and '"', the
\* href patterns take the whole value
BodyMatches(item) ==
  IF ~item.word THEN {}
  ELSE (IF IsHttpUrl(item.text) THEN { Match(item.text, FALSE) } ELSE {})
       \cup (IF item.kind = "href" THEN { Match(item.text, item.gt) } ELSE {})

\* unique_links = list(set(unsubscribe_links))
UniqueLinks(message) ==
  (IF IsListUnsubscribe(message.hname) THEN HeaderMatches(message.hdr) ELSE {})
  \cup UNION { BodyMatches(message.body[i]) : i \in 1..Len(message.body) }

\* link.strip('<>')
StripBrackets(m) == m.text

\* link.startswith('http')
StartsWithHttp(text) == text.scheme \in {"http", "https"}

\* how many times the returned list holds the link
Copies(message, link) ==
  Cardinality({ m \in UniqueLinks(message) : StripBrackets(m) = link })

\* extract_unsubscribe_links: the links of the returned list; list(set(...))
\* leaves the order of the list open
extract_unsubscribe_links(message) ==
  { StripBrackets(m) : m \in { u \in UniqueLinks(message) :
                                 StartsWithHttp(StripBrackets(u)) } }

(* ------------------------------ history ------------------------------- *)
Keys == { SenderKey(f) : f \in Froms }

HistoryRecord(sender_email, success, url, now) ==
  [sender_email |-> sender_email, unsubscribe_attempted |-> TRUE,
   success |-> success, timestamp |-> now, unsubscribe_url |-> url]

\* history files that earlier runs can have left behind
Histories ==
  UNION { { [k \in ks |-> HistoryRecord(k, s[k], Http1, 0)] : s \in [ks -> BOOLEAN] }
          : ks \in SUBSET Keys }

\* variant: the lookup uses the address as written
is_already_unsubscribed_raw(h, sender_email) == sender_email \in DOMAIN h

is_already_unsubscribed(h, sender_email) == SenderKey(sender_email) \in DOMAIN h

get_unsubscribe_record(h, sender_email) == h[SenderKey(sender_email)]

\* variant: the entry is stored under the address as written
add_to_unsubscribe_history_raw(h, sender_email, success, url, now) ==
  [k \in DOMAIN h \cup {sender_email} |->
     IF k = sender_email THEN HistoryRecord(sender_email, success, url, now)
     ELSE h[k]]

\* add_to_unsubscribe_history: the mapping after the upsert
add_to_unsubscribe_history(h, sender_email, success, url, now) ==
  LET sender_key == SenderKey(sender_email)
  IN  [k \in DOMAIN h \cup {sender_key} |->
         IF k = sender_key THEN HistoryRecord(sender_email, success, url, now)
         ELSE h[k]]

(* ------------------------------ grouping ------------------------------ *)
GroupIndex(groups, key) == { i \in 1..Len(groups) : groups[i].key = key }

\* variant: the groups are keyed by the address as written
AddToGroups_rawKey(groups, message) ==
  LET sender_email == get_sender_info(message)
      at           == { i \in 1..Len(groups) : groups[i].email = sender_email }
  IN  IF at = {}
      THEN Append(groups, [key |-> SenderKey(sender_email), email |-> sender_email,
                           messages |-> <<message>>])
      ELSE LET i == CHOOSE j \in at : TRUE
           IN  [groups EXCEPT ![i].messages = Append(@, message)]

\* body of the loop of group_emails_by_sender for one fetched message
AddToGroups(groups, message) ==
  LET sender_email == get_sender_info(message)
      sender_key   == SenderKey(sender_email)
      at           == GroupIndex(groups, sender_key)
  IN  IF at = {}
      THEN Append(groups, [key |-> sender_key, email |-> sender_email,
                           messages |-> <<message>>])
      ELSE LET i == CHOOSE j \in at : TRUE
           IN  [groups EXCEPT ![i].messages = Append(@, message)]

RECURSIVE GroupLoop(_, _)
GroupLoop(msgs, groups) ==
  IF msgs = <<>> THEN groups
  ELSE GroupLoop(Tail(msgs), AddToGroups(groups, Head(msgs)))

\* variant: a sort that puts the later of two equal groups first
InsertGroup_tiesReversed(sorted, g) ==
  LET before == { i \in 1..Len(sorted) :
                    Len(sorted[i].messages) > Len(g.messages) }
      n == IF before = {} THEN 0 ELSE CHOOSE i \in before : \A j \in before : j <= i
  IN  SubSeq(sorted, 1, n) \o <<g>> \o SubSeq(sorted, n + 1, Len(sorted))

\* sorted(..., key=len(messages), reverse=True) keeps equal keys in order:
\* g goes behind every group that has at least as many messages
InsertGroup(sorted, g) ==
  LET before == { i \in 1..Len(sorted) :
                    Len(sorted[i].messages) >= Len(g.messages) }
      n == IF before = {} THEN 0 ELSE CHOOSE i \in before : \A j \in before : j <= i
  IN  SubSeq(sorted, 1, n) \o <<g>> \o SubSeq(sorted, n + 1, Len(sorted))

RECURSIVE SortGroups(_, _)
SortGroups(groups, sorted) ==
  IF groups = <<>> THEN sorted
  ELSE SortGroups(Tail(groups), InsertGroup(sorted, Head(groups)))

\* group_emails_by_sender over the messages whose get succeeded
group_emails_by_sender(fetched) == SortGroups(GroupLoop(fetched, <<>>), <<>>)

(* ---------------------------- run parameters -------------------------- *)
Params == [method : {1, 2}, dry_run : BOOLEAN,
           delete_after_unsubscribe : BOOLEAN, permanent_delete : BOOLEAN,
           delete_without_unsubscribe : BOOLEAN]

NoParams == [method |-> 0, dry_run |-> TRUE, delete_after_unsubscribe |-> FALSE,
             permanent_delete |-> FALSE, delete_without_unsubscribe |-> FALSE]

EmptyLog == [http |-> {}, label |-> {}, trash |-> {}, del |-> {}, hist |-> {},
             wouldAttempt |-> {}, wouldRemove |-> {}, failed |-> {},
             known |-> {}, nolink |-> {}, linked |-> {}, raised |-> {},
             extracted |-> {}, invokedFor |-> {}, saveFailed |-> {}]

\* extract_unsubscribe_links was called with the message of that id
Extracted(l, id) == [l EXCEPT !.extracted = @ \cup {id}]

\* attempt_unsubscribe was called for a link of the message of that id
Invoked(l, id) == [l EXCEPT !.invokedFor = @ \cup {id}]

ZeroCounts == [processed_count |-> 0, success_count |-> 0, skipped_count |-> 0,
               total_emails_affected |-> 0, total_deleted |-> 0]

NoSummary == [kind |-> "none"]

NoPending == [success |-> FALSE, url |-> Mailto]

\* variant: the group is removed only after a successful attempt
CleanupAction_onSuccess(p, success) ==
  IF p.delete_after_unsubscribe /\ success THEN "remove"
  ELSE IF success THEN "label" ELSE "none"

\* variant: the label does not depend on the outcome
CleanupAction_labelAlways(p, success) ==
  IF p.delete_after_unsubscribe THEN "remove" ELSE "label"

\* the branch after a live attempt: "if delete_after_unsubscribe: ... else:
\* if success: label"
CleanupAction(p, success) ==
  IF p.delete_after_unsubscribe THEN "remove"
  ELSE IF success THEN "label" ELSE "none"

(* ------------------------------- state -------------------------------- *)
VARIABLES
  mailbox,              \* the messages of the account, in search order
  unfetchable,          \* ids for which messages().get raises
  mail,                 \* what the mail service holds: trashed, deleted, labelled ids
  history_file,         \* content of unsubscribe_history.json
  unsubscribe_history,  \* self.unsubscribe_history
  run,                  \* number of the current run (the date of its records)
  pc,                   \* "idle", "by_sender", "by_message", "done"
  params,               \* arguments of the running process_unsubscribes*
  messages,             \* result of search_emails
  sender_groups,        \* result of group_emails_by_sender
  gi,                   \* position of the loop over sender_groups
  phase,                \* "check", "record", "cleanup" inside one group
  pending,              \* success and link of the attempt being recorded
  mi,                   \* position of the loop over messages
  processed_senders,    \* per-message strategy: senders already handled
  counts,               \* the counters of the run
  summary,              \* what the run printed as its summary
  log,                  \* calls issued and lines reported by the current run
  invokedEarlier,       \* senders whose endpoint an earlier run invoked
  prev,                 \* the state the run started from; in a repeated run
                        \* also the parameters, summary and reports of the first
  file_state,           \* the history file on disk: "absent", "valid", or why
                        \* it cannot be loaded
  store_op,             \* the last operation on the history store and its outcome
  att,                  \* the call of attempt_unsubscribe under way
  clock,                \* time.time(), in ticks
  last_api_call,        \* self.last_api_call
  remote,               \* the last remote call to the mail service
  extraction            \* the last call of extract_unsubscribe_links on its own

vars == <<mailbox, unfetchable, mail, history_file, unsubscribe_history, run, pc,
          params, messages, sender_groups, gi, phase, pending, mi,
          processed_senders, counts, summary, log, invokedEarlier, prev,
          file_state, store_op, att, clock, last_api_call, remote, extraction>>

\* what the batch actions below leave alone
envVars  == <<mailbox, unfetchable, file_state, store_op, att, clock,
              last_api_call, remote, extraction>>
histVars == <<history_file, unsubscribe_history>>
runsVars == <<run, invokedEarlier, prev>>

NoMail == [trashed |-> {}, deleted |-> {}, labelled |-> {}]

\* messages().list leaves out what is in the trash or gone
Inbox == SelectSeq(mailbox, LAMBDA m : m.id \notin mail.trashed \cup mail.deleted)

\* get_message_details returns None when the get raises
Fetched(msgs) == SelectSeq(msgs, LAMBDA m : m.id \notin unfetchable)

Snapshot == [mail |-> mail, history_file |-> history_file,
             unsubscribe_history |-> unsubscribe_history]

\* what is kept of the start of a run, and of the run before it
StartOfRun(state) ==
  [kind |-> "start", state |-> state, summary |-> NoSummary, params |-> NoParams,
   wouldAttempt |-> {}, wouldRemove |-> {}]

NoOp == [op |-> "none", outcome |-> "none", key |-> <<>>]

NoAttempt == [pc |-> "idle", max_retries |-> 0, attempt |-> 0, trace |-> <<>>,
              slept |-> 0, result |-> FALSE]

NoRemote == [kind |-> "none", at |-> 0, limited |-> FALSE, since |-> 0, after |-> "none"]

\* the parts of the state a specification does not use
NoExtraction == [done |-> FALSE, links |-> {}, copies |-> <<>>]

InitAux ==
  /\ extraction = NoExtraction
  /\ store_op = NoOp
  /\ att = NoAttempt
  /\ clock = 0
  /\ last_api_call = 0
  /\ remote = NoRemote

InitRun ==
  /\ file_state = "valid"
  /\ InitAux
  /\ run = 1
  /\ pc = "idle"
  /\ params = NoParams
  /\ messages = <<>>
  /\ sender_groups = <<>>
  /\ gi = 1
  /\ phase = "check"
  /\ pending = NoPending
  /\ mi = 1
  /\ processed_senders = {}
  /\ counts = ZeroCounts
  /\ summary = NoSummary
  /\ log = EmptyLog
  /\ invokedEarlier = {}
  /\ prev = StartOfRun(Snapshot)

\* after GmailUnsubscriber(): the history file is loaded, nothing has run
Init ==
  /\ mailbox \in Mailboxes
  /\ unfetchable \in { u \in SUBSET Ids(mailbox) : Cardinality(u) <= 1 }
  /\ mail = NoMail
  /\ history_file \in Histories
  /\ unsubscribe_history = history_file
  /\ InitRun

(* -------------------------- mail client calls ------------------------- *)
\* delete_messages / move_to_trash on message_ids; failing: the ids whose
\* call raises (caught per message)
delete_messages(m, message_ids, failing) ==
  [m EXCEPT !.deleted = @ \cup (message_ids \ failing)]

move_to_trash(m, message_ids, failing) ==
  [m EXCEPT !.trashed = @ \cup (message_ids \ failing)]

\* variant: the first call that raises ends the loop over message_ids
Remove_abortOnFailure(p, m, message_ids, failing) ==
  LET reached == { id \in message_ids : \A f \in failing : id < f }
  IN  IF p.permanent_delete THEN [m EXCEPT !.deleted = @ \cup reached]
      ELSE [m EXCEPT !.trashed = @ \cup reached]

\* variant: the two branches are exchanged
Remove_swapped(p, m, message_ids, failing) ==
  IF p.permanent_delete THEN move_to_trash(m, message_ids, failing)
  ELSE delete_messages(m, message_ids, failing)

\* the branch "if permanent_delete: delete_messages else: move_to_trash"
Remove(p, m, message_ids, failing) ==
  IF p.permanent_delete THEN delete_messages(m, message_ids, failing)
  ELSE move_to_trash(m, message_ids, failing)

\* the calls the branch issues, and those of them that raised
LogRemove(p, l, message_ids, failing) ==
  IF p.permanent_delete
  THEN [l EXCEPT !.del = @ \cup message_ids, !.raised = @ \cup failing]
  ELSE [l EXCEPT !.trash = @ \cup message_ids, !.raised = @ \cup failing]

\* label_message on each of message_ids; failing: the ids whose call raises
label_messages(m, message_ids, failing) ==
  [m EXCEPT !.labelled = @ \cup (message_ids \ failing)]

(* ------------------------ branching conditions ------------------------ *)
\* variant: the test of dry_run is missing
CleanupLive_anyMode(p) == p.delete_after_unsubscribe

\* variant: the condition of the no-link branch is used
CleanupLive_withFlag(p) ==
  p.delete_without_unsubscribe /\ p.delete_after_unsubscribe /\ ~p.dry_run

\* "if delete_after_unsubscribe and not dry_run"
CleanupLive(p) == p.delete_after_unsubscribe /\ ~p.dry_run

\* "elif dry_run and delete_after_unsubscribe" / "elif dry_run: ... if delete_after_unsubscribe"
CleanupPreview(p) == p.dry_run /\ p.delete_after_unsubscribe

\* variant: the test of dry_run is missing
CleanupNoLinkLive_anyMode(p) ==
  p.delete_without_unsubscribe /\ p.delete_after_unsubscribe

\* variant: the test of delete_without_unsubscribe is missing
CleanupNoLinkLive_noFlag(p) == p.delete_after_unsubscribe /\ ~p.dry_run

\* "if delete_without_unsubscribe and delete_after_unsubscribe and not dry_run"
CleanupNoLinkLive(p) ==
  p.delete_without_unsubscribe /\ p.delete_after_unsubscribe /\ ~p.dry_run

\* "elif dry_run and delete_without_unsubscribe and delete_after_unsubscribe"
CleanupNoLinkPreview(p) ==
  p.dry_run /\ p.delete_without_unsubscribe /\ p.delete_after_unsubscribe

\* the ids whose trash/delete call may raise when the calls are issued
Failing(issued, message_ids) == IF issued THEN SUBSET message_ids ELSE {{}}

(* ------------------- process_unsubscribes_by_sender ------------------- *)
\* search, early return on an empty result, grouping, zeroed counters
StartBySender(p) ==
  /\ pc = "idle"
  /\ p.method = 2
  /\ params' = p
  /\ messages' = [i \in 1..Len(Inbox) |-> Inbox[i].id]
  /\ IF Inbox = <<>>
     THEN /\ pc' = "done"
          /\ summary' = [kind |-> "empty"]
          /\ sender_groups' = <<>>
     ELSE /\ pc' = "by_sender"
          /\ summary' = NoSummary
          /\ sender_groups' = group_emails_by_sender(Fetched(Inbox))
  /\ gi' = 1
  /\ phase' = "check"
  /\ counts' = ZeroCounts
  /\ log' = EmptyLog
  /\ UNCHANGED <<envVars, mail, histVars, runsVars, pending, mi, processed_senders>>

AtGroup == pc = "by_sender" /\ gi <= Len(sender_groups) /\ phase = "check"

Group == sender_groups[gi]

GroupIds(g) == Ids(g.messages)

\* variant: the last message of the group stands for it
latest_message_last(g) == g.messages[Len(g.messages)]

\* "latest_message = messages_from_sender[0]"
latest_message(g) == g.messages[1]

\* what holds of the group when the loop reaches it
ReachLog(l, g) ==
  LET inHist == g.key \in DOMAIN unsubscribe_history
      links  == extract_unsubscribe_links(latest_message(g))
  IN  [l EXCEPT !.known  = IF inHist THEN @ \cup {g.key} ELSE @,
                !.nolink = IF ~inHist /\ links = {} THEN @ \cup {g.key} ELSE @,
                !.linked = IF ~inHist /\ links # {} THEN @ \cup {g.key} ELSE @,
                !.extracted = IF ~inHist THEN @ \cup {latest_message(g).id} ELSE @]

\* processed_count += 1; total_emails_affected += email_count
ReachCounts(c, g) ==
  [c EXCEPT !.processed_count = @ + 1,
            !.total_emails_affected = @ + Len(g.messages)]

\* the sender is in the history: no attempt, optional removal of the group
SenderInHistory ==
  /\ AtGroup
  /\ is_already_unsubscribed(unsubscribe_history, Group.email)
  /\ \E failing \in Failing(CleanupLive(params), GroupIds(Group)) :
       IF CleanupLive(params)
       THEN /\ mail' = Remove(params, mail, GroupIds(Group), failing)
            /\ log' = LogRemove(params, ReachLog(log, Group), GroupIds(Group), failing)
            /\ counts' = [ReachCounts(counts, Group) EXCEPT
                            !.total_deleted = @ + Cardinality(GroupIds(Group) \ failing)]
       ELSE /\ mail' = mail
            /\ log' = IF CleanupPreview(params)
                      THEN [ReachLog(log, Group) EXCEPT !.wouldRemove = @ \cup GroupIds(Group)]
                      ELSE ReachLog(log, Group)
            /\ counts' = ReachCounts(counts, Group)
  /\ gi' = gi + 1
  /\ UNCHANGED <<envVars, histVars, runsVars, pc, params, messages, sender_groups,
                 phase, pending, mi, processed_senders, summary>>

\* the representative message has no link: optional removal, nothing else
SenderNoLinks ==
  /\ AtGroup
  /\ ~is_already_unsubscribed(unsubscribe_history, Group.email)
  /\ extract_unsubscribe_links(latest_message(Group)) = {}
  /\ \E failing \in Failing(CleanupNoLinkLive(params), GroupIds(Group)) :
       IF CleanupNoLinkLive(params)
       THEN /\ mail' = Remove(params, mail, GroupIds(Group), failing)
            /\ log' = LogRemove(params, ReachLog(log, Group), GroupIds(Group), failing)
            /\ counts' = [ReachCounts(counts, Group) EXCEPT
                            !.total_deleted = @ + Cardinality(GroupIds(Group) \ failing)]
       ELSE /\ mail' = mail
            /\ log' = IF CleanupNoLinkPreview(params)
                      THEN [ReachLog(log, Group) EXCEPT !.wouldRemove = @ \cup GroupIds(Group)]
                      ELSE ReachLog(log, Group)
            /\ counts' = ReachCounts(counts, Group)
  /\ gi' = gi + 1
  /\ UNCHANGED <<envVars, histVars, runsVars, pc, params, messages, sender_groups,
                 phase, pending, mi, processed_senders, summary>>

\* links found, dry run: report the attempt and the removal that would follow
SenderPreview ==
  /\ AtGroup
  /\ ~is_already_unsubscribed(unsubscribe_history, Group.email)
  /\ extract_unsubscribe_links(latest_message(Group)) # {}
  /\ params.dry_run
  /\ log' = [ReachLog(log, Group) EXCEPT
               !.wouldAttempt = @ \cup {Group.key},
               !.wouldRemove = IF params.delete_after_unsubscribe
                               THEN @ \cup GroupIds(Group) ELSE @]
  /\ counts' = ReachCounts(counts, Group)
  /\ gi' = gi + 1
  /\ UNCHANGED <<envVars, mail, histVars, runsVars, pc, params, messages,
                 sender_groups, phase, pending, mi, processed_senders, summary>>

\* what follows attempt_unsubscribe: add_to_unsubscribe_history
AfterInvoke == "record"

\* links found, live run: attempt_unsubscribe(unsubscribe_links[0], ...)
SenderInvoke ==
  /\ AtGroup
  /\ ~is_already_unsubscribed(unsubscribe_history, Group.email)
  /\ extract_unsubscribe_links(latest_message(Group)) # {}
  /\ ~params.dry_run
  /\ \E url \in extract_unsubscribe_links(latest_message(Group)), success \in BOOLEAN :
       /\ pending' = [success |-> success, url |-> url]
       /\ log' = [Invoked(ReachLog(log, Group), latest_message(Group).id) EXCEPT
                    !.http = @ \cup {[key |-> Group.key, url |-> url, success |-> success]}]
  /\ counts' = ReachCounts(counts, Group)
  /\ phase' = AfterInvoke
  /\ UNCHANGED <<envVars, mail, histVars, runsVars, pc, params, messages,
                 sender_groups, gi, mi, processed_senders, summary>>

\* add_to_unsubscribe_history and save; success_count or the "Failed" line
SenderRecord ==
  /\ pc = "by_sender"
  /\ phase = "record"
  /\ unsubscribe_history' =
       add_to_unsubscribe_history(unsubscribe_history, Group.email,
                                  pending.success, pending.url, run)
  /\ history_file' = unsubscribe_history'
  /\ log' = [log EXCEPT !.hist = @ \cup {SenderKey(Group.email)},
                        !.failed = IF pending.success THEN @ ELSE @ \cup {Group.key}]
  /\ counts' = IF pending.success
               THEN [counts EXCEPT !.success_count = @ + 1] ELSE counts
  /\ phase' = "cleanup"
  /\ UNCHANGED <<envVars, mail, runsVars, pc, params, messages, sender_groups, gi,
                 pending, mi, processed_senders, summary>>

\* remove the whole group whatever the outcome, or label it on success
SenderCleanup ==
  /\ pc = "by_sender"
  /\ phase = "cleanup"
  /\ \E failing \in SUBSET GroupIds(Group) :
       IF CleanupAction(params, pending.success) = "remove"
       THEN /\ mail' = Remove(params, mail, GroupIds(Group), failing)
            /\ log' = LogRemove(params, log, GroupIds(Group), failing)
            /\ counts' = [counts EXCEPT
                            !.total_deleted = @ + Cardinality(GroupIds(Group) \ failing)]
       ELSE IF CleanupAction(params, pending.success) = "label"
       THEN /\ mail' = label_messages(mail, GroupIds(Group), failing)
            /\ log' = [log EXCEPT !.label = @ \cup GroupIds(Group),
                                  !.raised = @ \cup failing]
            /\ counts' = counts
       ELSE /\ failing = {}
            /\ UNCHANGED <<mail, log, counts>>
  /\ gi' = gi + 1
  /\ phase' = "check"
  /\ pending' = NoPending
  /\ UNCHANGED <<envVars, histVars, runsVars, pc, params, messages, sender_groups,
                 mi, processed_senders, summary>>

\* the summary of the per-sender run
FinishBySender ==
  /\ pc = "by_sender"
  /\ gi > Len(sender_groups)
  /\ summary' = [kind |-> "by_sender",
                 scanned |-> Len(messages),
                 senders |-> Len(sender_groups),
                 processed |-> counts.processed_count,
                 affected |-> counts.total_emails_affected,
                 deleted |-> counts.total_deleted,
                 successful |-> IF params.dry_run THEN -1 ELSE counts.success_count,
                 failed |-> IF params.dry_run THEN -1
                            ELSE counts.processed_count - counts.success_count]
  /\ pc' = "done"
  /\ UNCHANGED <<envVars, mail, histVars, runsVars, params, messages, sender_groups,
                 gi, phase, pending, mi, processed_senders, counts, log>>

(* ------------------------ process_unsubscribes ------------------------ *)
\* search, early return on an empty result, zeroed counters
StartByMessage(p) ==
  /\ pc = "idle"
  /\ p.method = 1
  /\ params' = p
  /\ messages' = [i \in 1..Len(Inbox) |-> Inbox[i].id]
  /\ IF Inbox = <<>>
     THEN pc' = "done" /\ summary' = [kind |-> "empty"]
     ELSE pc' = "by_message" /\ summary' = NoSummary
  /\ mi' = 1
  /\ processed_senders' = {}
  /\ counts' = ZeroCounts
  /\ log' = EmptyLog
  /\ UNCHANGED <<envVars, mail, histVars, runsVars, sender_groups, gi, phase, pending>>

AtMessage == pc = "by_message" /\ mi <= Len(messages)

\* the message the stub messages[mi] stands for
Message == CHOOSE m \in SeqToSet(mailbox) : m.id = messages[mi]

\* variant: the sender is remembered by the address as written
MessageKey_raw == get_sender_info(Message)

\* "sender_key = sender_email.lower().strip()"
MessageKey == SenderKey(get_sender_info(Message))

\* get_message_details returned None: continue
MsgGetFailed ==
  /\ AtMessage
  /\ messages[mi] \in unfetchable
  /\ mi' = mi + 1
  /\ UNCHANGED <<envVars, mail, histVars, runsVars, pc, params, messages,
                 sender_groups, gi, phase, pending, processed_senders, counts,
                 summary, log>>

\* the sender was handled earlier in this run: optional removal of this message
MsgAlreadyProcessed ==
  /\ AtMessage
  /\ messages[mi] \notin unfetchable
  /\ MessageKey \in processed_senders
  /\ \E failing \in Failing(CleanupLive(params), {Message.id}) :
       IF CleanupLive(params)
       THEN /\ mail' = Remove(params, mail, {Message.id}, failing)
            /\ log' = LogRemove(params, log, {Message.id}, failing)
       ELSE /\ mail' = mail
            /\ log' = IF CleanupPreview(params)
                      THEN [log EXCEPT !.wouldRemove = @ \cup {Message.id}]
                      ELSE log
  /\ counts' = [counts EXCEPT !.skipped_count = @ + 1]
  /\ mi' = mi + 1
  /\ UNCHANGED <<envVars, histVars, runsVars, pc, params, messages, sender_groups,
                 gi, phase, pending, processed_senders, summary>>

\* no link in the message: optional removal of this message
MsgNoLinks ==
  /\ AtMessage
  /\ messages[mi] \notin unfetchable
  /\ MessageKey \notin processed_senders
  /\ extract_unsubscribe_links(Message) = {}
  /\ \E failing \in Failing(CleanupNoLinkLive(params), {Message.id}) :
       IF CleanupNoLinkLive(params)
       THEN /\ mail' = Remove(params, mail, {Message.id}, failing)
            /\ log' = LogRemove(params, Extracted(log, Message.id), {Message.id}, failing)
       ELSE /\ mail' = mail
            /\ log' = IF CleanupNoLinkPreview(params)
                      THEN [Extracted(log, Message.id) EXCEPT
                              !.wouldRemove = @ \cup {Message.id}]
                      ELSE Extracted(log, Message.id)
  /\ mi' = mi + 1
  /\ UNCHANGED <<envVars, histVars, runsVars, pc, params, messages, sender_groups,
                 gi, phase, pending, processed_senders, counts, summary>>

\* links found, dry run: report the attempt only
MsgPreview ==
  /\ AtMessage
  /\ messages[mi] \notin unfetchable
  /\ MessageKey \notin processed_senders
  /\ extract_unsubscribe_links(Message) # {}
  /\ params.dry_run
  /\ processed_senders' = processed_senders \cup {MessageKey}
  /\ log' = [Extracted(log, Message.id) EXCEPT !.wouldAttempt = @ \cup {MessageKey}]
  /\ counts' = [counts EXCEPT !.processed_count = @ + 1]
  /\ mi' = mi + 1
  /\ UNCHANGED <<envVars, mail, histVars, runsVars, pc, params, messages,
                 sender_groups, gi, phase, pending, summary>>

\* links found, live run: attempt, then remove the message or label it on
\* success; the history is neither read nor written
MsgLive ==
  /\ AtMessage
  /\ messages[mi] \notin unfetchable
  /\ MessageKey \notin processed_senders
  /\ extract_unsubscribe_links(Message) # {}
  /\ ~params.dry_run
  /\ processed_senders' = processed_senders \cup {MessageKey}
  /\ \E url \in extract_unsubscribe_links(Message), success \in BOOLEAN,
        failing \in SUBSET {Message.id} :
       LET l == [Invoked(Extracted(log, Message.id), Message.id) EXCEPT
                   !.http = @ \cup
                      {[key |-> MessageKey, url |-> url, success |-> success]}]
       IN
       /\ counts' = [counts EXCEPT !.processed_count = @ + 1,
                                   !.success_count = IF success THEN @ + 1 ELSE @]
       /\ IF CleanupAction(params, success) = "remove"
          THEN /\ mail' = Remove(params, mail, {Message.id}, failing)
               /\ log' = LogRemove(params, l, {Message.id}, failing)
          ELSE IF CleanupAction(params, success) = "label"
          THEN /\ mail' = label_messages(mail, {Message.id}, failing)
               /\ log' = [l EXCEPT !.label = @ \cup {Message.id},
                                   !.raised = @ \cup failing]
          ELSE /\ failing = {}
               /\ mail' = mail
               /\ log' = l
  /\ mi' = mi + 1
  /\ UNCHANGED <<envVars, histVars, runsVars, pc, params, messages, sender_groups,
                 gi, phase, pending, summary>>

\* the summary of the per-message run
FinishByMessage ==
  /\ pc = "by_message"
  /\ mi > Len(messages)
  /\ summary' = [kind |-> "by_message",
                 scanned |-> Len(messages),
                 processed |-> counts.processed_count,
                 skipped |-> counts.skipped_count,
                 successful |-> IF params.dry_run THEN -1 ELSE counts.success_count,
                 failed |-> IF params.dry_run THEN -1
                            ELSE counts.processed_count - counts.success_count]
  /\ pc' = "done"
  /\ UNCHANGED <<envVars, mail, histVars, runsVars, params, messages, sender_groups,
                 gi, phase, pending, mi, processed_senders, counts, log>>

(* --------------------------- specifications --------------------------- *)
Steps ==
  \/ SenderInHistory \/ SenderNoLinks \/ SenderPreview \/ SenderInvoke
  \/ SenderRecord \/ SenderCleanup \/ FinishBySender
  \/ MsgGetFailed \/ MsgAlreadyProcessed \/ MsgNoLinks \/ MsgPreview \/ MsgLive
  \/ FinishByMessage

Next ==
  \/ \E p \in Params : StartBySender(p)
  \/ \E p \in Params : StartByMessage(p)
  \/ Steps

\* one run of either strategy over a mailbox and a history file
Spec == Init /\ [][Next]_vars

(* ------------------------- runs one after another --------------------- *)
\* the next invocation of the program: a new object loads the history file
NextRun ==
  /\ pc = "done"
  /\ run < MaxRuns
  /\ run' = run + 1
  /\ invokedEarlier' = invokedEarlier \cup { e.key : e \in log.http }
  /\ unsubscribe_history' = history_file
  /\ prev' = StartOfRun([mail |-> mail, history_file |-> history_file,
                         unsubscribe_history |-> history_file])
  /\ pc' = "idle"
  /\ params' = NoParams
  /\ messages' = <<>>
  /\ sender_groups' = <<>>
  /\ gi' = 1
  /\ phase' = "check"
  /\ pending' = NoPending
  /\ mi' = 1
  /\ processed_senders' = {}
  /\ counts' = ZeroCounts
  /\ summary' = NoSummary
  /\ log' = EmptyLog
  /\ UNCHANGED <<envVars, mail, history_file>>

\* mailboxes of two messages, the first of them with links
RunMailboxes ==
  { << [id |-> 1, from |-> <<"a">>, hname |-> "List-Unsubscribe",
        hdr |-> <<Http2, Mailto, Http1>>, body |-> <<>>],
       [id |-> 2, from |-> f, hname |-> "List-Unsubscribe", hdr |-> h, body |-> <<>>] >>
    : f \in Froms, h \in Headers }

\* the first run on a new installation: no history file yet
InitRuns ==
  /\ mailbox \in RunMailboxes
  /\ unfetchable \in {{}, {2}}
  /\ mail = NoMail
  /\ history_file = <<>>
  /\ unsubscribe_history = history_file
  /\ InitRun

NextRuns ==
  \/ \E p \in Params : StartBySender(p)
  \/ \E p \in Params : StartByMessage(p)
  \/ Steps
  \/ NextRun

\* up to MaxRuns runs that share one history file
SpecRuns == InitRuns /\ [][NextRuns]_vars

(* ----------------------- a preview and its repeat --------------------- *)
\* the first run, a preview
FirstPreview ==
  /\ prev.kind = "start"
  /\ \E p \in Params :
       /\ p.dry_run
       /\ (StartBySender(p) \/ StartByMessage(p))

\* the preview has finished; the program is started again on the same data
Repeat ==
  /\ pc = "done"
  /\ prev.kind = "start"
  /\ prev' = [kind |-> "first", state |-> prev.state, summary |-> summary,
              params |-> params, wouldAttempt |-> log.wouldAttempt,
              wouldRemove |-> log.wouldRemove]
  /\ unsubscribe_history' = history_file
  /\ pc' = "idle"
  /\ params' = NoParams
  /\ messages' = <<>>
  /\ sender_groups' = <<>>
  /\ gi' = 1
  /\ phase' = "check"
  /\ pending' = NoPending
  /\ mi' = 1
  /\ processed_senders' = {}
  /\ counts' = ZeroCounts
  /\ summary' = NoSummary
  /\ log' = EmptyLog
  /\ UNCHANGED <<envVars, mail, history_file, run, invokedEarlier>>

\* the second run: the parameters of the first, as a preview again or live
SecondRun ==
  /\ prev.kind = "first"
  /\ \E d \in BOOLEAN :
       LET p == [prev.params EXCEPT !.dry_run = d]
       IN  StartBySender(p) \/ StartByMessage(p)

NextRepeat ==
  \/ FirstPreview
  \/ Repeat
  \/ SecondRun
  \/ Steps

\* a preview run followed by a run with the same parameters on the same data
SpecRepeat == Init /\ [][NextRepeat]_vars

(* ------------------------------ properties ---------------------------- *)
Running == pc \in {"by_sender", "by_message", "done"}

\* a live per-sender run, under way or finished
LiveBySender == Running /\ params.method = 2 /\ ~params.dry_run

\* the groups the loop has left behind
DoneGroups == IF params.method = 2 THEN 1..(gi - 1) ELSE {}

RemoveCalls == log.trash \cup log.del

InvokedKeys == { e.key : e \in log.http }

\* C1: in a live per-sender run attempt_unsubscribe is never called for a
\* sender whose canonical email was a key of the history when its group
\* was reached, whatever the record and the cleanup flags say.
C1_NoAttemptForKnownSender ==
  LiveBySender => \A e \in log.http : e.key \notin log.known

C1_Witness ==
  /\ LiveBySender /\ pc = "done"
  /\ log.http # {}
  /\ \E k \in log.known : ~unsubscribe_history[k].success

\* C2: once a live run has invoked the endpoint of a canonical sender, no
\* later run over the same history file invokes an endpoint of that sender.
C2_InvokedInOneRunOnly ==
  \A e \in log.http : e.key \notin invokedEarlier

\* C3: a preview run of either strategy issues no unsubscribe request, no
\* label, trash or delete call and no history write; the mail service, the
\* in-memory history and the history file stay as the run found them.
C3_PreviewHasNoSideEffect ==
  (Running /\ params.dry_run) =>
     /\ log.http = {} /\ log.label = {} /\ log.trash = {} /\ log.del = {}
     /\ log.hist = {}
     /\ Snapshot = prev.state

C3_Witness ==
  /\ pc = "done" /\ params.dry_run
  /\ params.delete_after_unsubscribe /\ params.delete_without_unsubscribe
  /\ log.wouldAttempt # {} /\ log.wouldRemove # {}
  /\ DOMAIN unsubscribe_history # {}

\* C4: a preview repeated with the same parameters on the same mailbox and
\* history prints the same summary, and mailbox and history are after the
\* second run what they were before the first.
C4_PreviewTwiceSameSummary ==
  (pc = "done" /\ prev.kind = "first" /\ params.dry_run) =>
     /\ summary = prev.summary
     /\ Snapshot = prev.state

C4_Witness ==
  /\ pc = "done" /\ prev.kind = "first" /\ params.dry_run
  /\ params.delete_after_unsubscribe
  /\ summary.kind = "by_message"
  /\ summary.skipped > 0 /\ summary.processed > 0

\* C5: on the same data and parameters, the senders a preview reports it
\* would unsubscribe from are those a live run calls attempt_unsubscribe
\* for, and the messages it reports it would trash/delete are those a live
\* run issues a trash/delete call for.
C5_PreviewMirrorsLive ==
  (pc = "done" /\ prev.kind = "first" /\ ~params.dry_run) =>
     /\ InvokedKeys = prev.wouldAttempt
     /\ RemoveCalls = prev.wouldRemove

C7_LabelOnSuccessOnly ==
  (LiveBySender /\ ~params.delete_after_unsubscribe) =>
     \A i \in DoneGroups :
        sender_groups[i].key \in log.linked =>
           LET ids == GroupIds(sender_groups[i])
               ok  == \E e \in log.http : e.key = sender_groups[i].key /\ e.success
           IN  /\ ok => /\ ids \subseteq log.label
                        /\ (ids \ log.raised) \subseteq mail.labelled
                        /\ sender_groups[i].key \notin log.failed
               /\ ~ok => /\ ids \cap (log.label \cup RemoveCalls) = {}
                         /\ ids \cap mail.labelled = {}
                         /\ sender_groups[i].key \in log.failed

C7_Witness ==
  /\ LiveBySender /\ pc = "done" /\ ~params.delete_after_unsubscribe
  /\ \E i \in DoneGroups :
        /\ sender_groups[i].key \in log.linked
        /\ Len(sender_groups[i].messages) = 2
        /\ GroupIds(sender_groups[i]) \subseteq mail.labelled

\* C8: live per-sender run, group not in the history and without a link:
\* its messages get trash/delete calls exactly when delete_after_unsubscribe
\* and delete_without_unsubscribe are both set; there is no attempt, no
\* label and no history record for the sender.
C8_NoLinkPolicy ==
  LiveBySender =>
     \A i \in DoneGroups :
        sender_groups[i].key \in log.nolink =>
           LET ids == GroupIds(sender_groups[i])
               k   == sender_groups[i].key
           IN  /\ IF params.delete_after_unsubscribe /\ params.delete_without_unsubscribe
                  THEN ids \subseteq RemoveCalls
                  ELSE ids \cap RemoveCalls = {}
               /\ k \notin InvokedKeys
               /\ ids \cap log.label = {}
               /\ k \notin log.hist
               /\ k \notin DOMAIN unsubscribe_history
               /\ k \notin DOMAIN history_file

C8_Witness ==
  /\ LiveBySender /\ pc = "done"
  /\ params.delete_after_unsubscribe /\ params.delete_without_unsubscribe
  /\ \E i \in DoneGroups :
        /\ sender_groups[i].key \in log.nolink
        /\ Len(sender_groups[i].messages) = 2
        /\ GroupIds(sender_groups[i]) \subseteq RemoveCalls

\* C9: live per-sender run, group already in the history: every message of
\* the group gets a trash/delete call exactly when delete_after_unsubscribe
\* is set, whatever delete_without_unsubscribe and the recorded outcome are;
\* otherwise no label, trash or delete call is issued for the group; the
\* sender's record stays as it was.
C9_KnownSenderCleanup ==
  LiveBySender =>
     \A i \in DoneGroups :
        sender_groups[i].key \in log.known =>
           LET ids == GroupIds(sender_groups[i])
               k   == sender_groups[i].key
           IN  /\ IF params.delete_after_unsubscribe
                  THEN ids \subseteq RemoveCalls
                  ELSE ids \cap (RemoveCalls \cup log.label) = {}
               /\ k \in DOMAIN unsubscribe_history
               /\ unsubscribe_history[k] = prev.state.unsubscribe_history[k]
               /\ k \in DOMAIN history_file
               /\ history_file[k] = prev.state.history_file[k]

C9_Witness ==
  /\ LiveBySender /\ pc = "done"
  /\ params.delete_after_unsubscribe /\ ~params.delete_without_unsubscribe
  /\ \E i \in DoneGroups :
        /\ sender_groups[i].key \in log.known
        /\ Len(sender_groups[i].messages) = 2
        /\ ~unsubscribe_history[sender_groups[i].key].success

\* C10: once a live call of attempt_unsubscribe has returned and its caller
\* has gone on, in either strategy, the history holds a record under the
\* sender's canonical email with attempted = true, the outcome of the call
\* and the URL invoked.
C10_AttemptRecorded ==
  (Running /\ ~params.dry_run /\ phase # "record") =>
     \A e \in log.http :
        /\ e.key \in DOMAIN unsubscribe_history
        /\ unsubscribe_history[e.key].unsubscribe_attempted
        /\ unsubscribe_history[e.key].success = e.success
        /\ unsubscribe_history[e.key].unsubscribe_url = e.url

(* --------------------------- the history store ------------------------ *)
\* the batch state, untouched by the operations modelled on their own
batchVars == <<mailbox, unfetchable, mail, run, params, messages, sender_groups,
               gi, phase, pending, mi, processed_senders, counts, summary, log,
               invokedEarlier, prev, extraction>>

\* no batch has run and none runs
NoBatch ==
  /\ mailbox = <<>>
  /\ unfetchable = {}
  /\ mail = NoMail
  /\ run = 1
  /\ params = NoParams
  /\ messages = <<>>
  /\ sender_groups = <<>>
  /\ gi = 1
  /\ phase = "check"
  /\ pending = NoPending
  /\ mi = 1
  /\ processed_senders = {}
  /\ counts = ZeroCounts
  /\ summary = NoSummary
  /\ log = EmptyLog
  /\ invokedEarlier = {}

\* what the history file can be when the program starts
FileStates == {"absent", "valid", "truncated", "unreadable", "undecodable"}

\* what open(history_file, 'r') and json.load raise on such a file
LoadError(state) ==
  CASE state = "truncated"   -> "JSONDecodeError"
    [] state = "unreadable"  -> "IOError"
    [] state = "undecodable" -> "UnicodeDecodeError"
    [] OTHER -> "none"

\* "except (json.JSONDecodeError, IOError)"
LoadCatches(exc) == exc \in {"JSONDecodeError", "IOError"}

\* load_unsubscribe_history: what it returns when it returns
load_unsubscribe_history(state, content) ==
  IF state = "valid" THEN content ELSE <<>>

\* what open(history_file, 'w') and json.dump can do: write all of it, fail
\* to open (the file stays), fail while writing (a partial file)
SaveOutcomes == {"ok", "open_failed", "write_failed"}

\* the file after save_unsubscribe_history with that outcome
SavedState(outcome, state) ==
  CASE outcome = "ok" -> "valid"
    [] outcome = "write_failed" -> "truncated"
    [] OTHER -> state

SavedContent(outcome, content, h) ==
  CASE outcome = "ok" -> h
    [] outcome = "write_failed" -> <<>>
    [] OTHER -> content

\* addresses add_to_unsubscribe_history is called with
StoreEmails == Froms \cup { <<"A">> }

\* the program has not been started; some history file, or none, is on disk
InitStore ==
  /\ file_state \in FileStates
  /\ history_file \in (IF file_state = "valid" THEN Histories ELSE {<<>>})
  /\ unsubscribe_history = <<>>
  /\ pc = "new"
  /\ NoBatch
  /\ prev = StartOfRun(Snapshot)
  /\ InitAux

\* GmailUnsubscriber(): self.unsubscribe_history = self.load_unsubscribe_history();
\* an exception the load does not catch leaves __init__ and ends main
Construct ==
  /\ pc = "new"
  /\ IF LoadError(file_state) = "none" \/ LoadCatches(LoadError(file_state))
     THEN /\ unsubscribe_history' = load_unsubscribe_history(file_state, history_file)
          /\ pc' = "idle"
     ELSE /\ unsubscribe_history' = unsubscribe_history
          /\ pc' = "crashed"
  /\ store_op' = [op |-> "load", outcome |-> LoadError(file_state), key |-> <<>>]
  /\ UNCHANGED <<batchVars, history_file, file_state, att, clock, last_api_call, remote>>

\* add_to_unsubscribe_history(sender_email, ...) with its save
AddRecord ==
  /\ pc = "idle"
  /\ \E sender_email \in StoreEmails, success \in BOOLEAN, url \in {Http1, Http2},
        outcome \in SaveOutcomes :
       /\ unsubscribe_history' =
            add_to_unsubscribe_history(unsubscribe_history, sender_email, success, url, run)
       /\ history_file' = SavedContent(outcome, history_file, unsubscribe_history')
       /\ file_state' = SavedState(outcome, file_state)
       /\ store_op' = [op |-> "add", outcome |-> outcome, key |-> sender_email]
  /\ UNCHANGED <<batchVars, pc, att, clock, last_api_call, remote>>

NextStore == Construct \/ AddRecord

\* the history store on its own: the load at start-up, then records
SpecStore == InitStore /\ [][NextStore]_vars

\* what is on disk, as a later load would see it
OnDisk == IF file_state = "valid" THEN history_file ELSE <<>>

C12_LoadNeverFatal ==
  /\ pc # "crashed"
  /\ store_op.op = "load" =>
        /\ pc = "idle"
        /\ unsubscribe_history = OnDisk

(* ------------------------ one unsubscribe request ---------------------- *)
MaxRetries == 2

\* status codes an endpoint answers with
Statuses == {200, 204, 503}

\* what requests.get raises instead: a timeout, a connection error, another
\* requests exception (too many redirects, invalid URL), anything else
Raises == {"Timeout", "ConnectionError", "RequestException", "Other"}

\* what one requests.get gives: a response with a status, or an exception
Response(status_code) == [status_code |-> status_code, exc |-> "none"]
Raised(exc) == [status_code |-> 0, exc |-> exc]
Outcomes == { Response(c) : c \in Statuses } \cup { Raised(e) : e \in Raises }

\* variant: any 2xx status counts
IsSuccess_2xx(status_code) == status_code \in {200, 204}

\* "if response.status_code == 200"
IsSuccess(status_code) == status_code = 200

\* variant: without the last clause, "except Exception"
Handler_requestsOnly(exc) ==
  CASE exc = "Timeout" -> "Timeout"
    [] exc = "ConnectionError" -> "ConnectionError"
    [] exc = "RequestException" -> "RequestException"
    [] OTHER -> "none"

\* the except clause that takes the exception, in the order they are written
Handler(exc) ==
  CASE exc = "Timeout" -> "Timeout"
    [] exc = "ConnectionError" -> "ConnectionError"
    [] exc = "RequestException" -> "RequestException"
    [] OTHER -> "Exception"

\* variant: a handler returns at once
GiveUp_atOnce(attempt, max_retries) == TRUE

\* "if attempt == max_retries: return False" in each handler
GiveUp(attempt, max_retries) == attempt = max_retries

\* range(max_retries + 1) has nothing after attempt
RangeExhausted(attempt, max_retries) == attempt + 1 >= max_retries + 1

\* the program is idle, with some history; nothing has been requested
InitInvoke ==
  /\ history_file \in Histories
  /\ unsubscribe_history = history_file
  /\ file_state = "valid"
  /\ pc = "idle"
  /\ NoBatch
  /\ prev = StartOfRun(Snapshot)
  /\ InitAux

\* attempt_unsubscribe(url, sender_info, max_retries) is entered
CallInvoke ==
  /\ att.pc = "idle"
  /\ \E max_retries \in 0..MaxRetries :
       att' = [NoAttempt EXCEPT !.pc = "loop", !.max_retries = max_retries]
  /\ UNCHANGED <<batchVars, pc, history_file, unsubscribe_history, file_state,
                 store_op, clock, last_api_call, remote>>

\* the loop goes on with the next attempt, or the function returns False
NextAttempt(a, over) ==
  IF over THEN [a EXCEPT !.pc = "returned", !.result = FALSE]
  ELSE [a EXCEPT !.attempt = a.attempt + 1]

\* one pass of the loop: the sleep before a retry, the GET, what follows
Request ==
  /\ att.pc = "loop"
  /\ \E outcome \in Outcomes :
       LET a == [att EXCEPT !.trace = Append(att.trace, outcome),
                            !.slept = att.slept + att.attempt]
       IN att' =
            IF outcome.exc = "none"
            THEN IF IsSuccess(outcome.status_code)
                 THEN [a EXCEPT !.pc = "returned", !.result = TRUE]
                 ELSE NextAttempt(a, RangeExhausted(a.attempt, a.max_retries))
            ELSE IF Handler(outcome.exc) = "none"
                 THEN [a EXCEPT !.pc = "raised"]
                 ELSE NextAttempt(a, GiveUp(a.attempt, a.max_retries)
                                       \/ RangeExhausted(a.attempt, a.max_retries))
  /\ UNCHANGED <<batchVars, pc, history_file, unsubscribe_history, file_state,
                 store_op, clock, last_api_call, remote>>

NextInvoke == CallInvoke \/ Request

\* one call of attempt_unsubscribe against every behaviour of the endpoint
SpecInvoke == InitInvoke /\ [][NextInvoke]_vars

\* the GET requests issued so far that were answered with 200
Got200 == { i \in 1..Len(att.trace) : att.trace[i] = Response(200) }

\* C13: when attempt_unsubscribe has returned and no request was answered
\* with 200, exactly max_retries + 1 requests were issued and the result is
\* failure.
C13_AllAttemptsUsed ==
  (att.pc = "returned" /\ Got200 = {}) =>
     /\ Len(att.trace) = att.max_retries + 1
     /\ att.result = FALSE

C13_Witness ==
  /\ att.pc = "returned"
  /\ att.max_retries = 2
  /\ att.trace \in { <<Response(503), Response(503), Response(503)>>,
                    <<Raised("Timeout"), Response(503), Raised("Other")>> }
  /\ att.result = FALSE

\* C14: attempt_unsubscribe returns success exactly when a request was
\* answered with 200; no request follows a 200; at most max_retries + 1
\* requests are issued; and while fewer have been issued without a 200 the
\* function is still in its loop, about to issue the next.
C14_SuccessIffA200 ==
  /\ Len(att.trace) <= att.max_retries + 1
  /\ \A i \in Got200 : i = Len(att.trace)
  /\ att.pc = "returned" => (att.result <=> Got200 # {})
  /\ (att.pc # "idle" /\ Got200 = {} /\ Len(att.trace) < att.max_retries + 1) =>
        /\ att.pc = "loop"
        /\ att.attempt = Len(att.trace)

C14_Witness ==
  /\ att.pc = "returned"
  /\ att.result = TRUE
  /\ att.trace = <<Raised("ConnectionError"), Response(204), Response(200)>>

\* C15: attempt_unsubscribe does not raise: whatever the requests give, it
\* ends by returning a boolean, and the history store, its file, the
\* counters and the rate-limit timestamp are as they were at the call.
C15_NeverRaises ==
  /\ att.pc # "raised"
  /\ att.pc \in {"idle", "loop", "returned"}
  /\ att.result \in BOOLEAN
  /\ (att.pc = "loop" => att.attempt <= att.max_retries)
  /\ Snapshot = prev.state
  /\ counts = ZeroCounts
  /\ last_api_call = 0

C15_Witness ==
  /\ att.pc = "returned"
  /\ att.trace = <<Raised("Other"), Raised("RequestException"), Raised("Timeout")>>
  /\ unsubscribe_history # <<>>

(* ------------------------- grouping on its own ------------------------- *)
MaxGroupMsgs == 3

\* search results of up to MaxGroupMsgs messages
GroupMailboxes ==
  UNION { { [i \in 1..n |-> [id |-> i, from |-> f[i].from, hname |-> "List-Unsubscribe",
                           hdr |-> f[i].hdr, body |-> <<>>]]
            : f \in [1..n -> MsgShapes] } : n \in 0..MaxGroupMsgs }

\* the previews of the per-sender strategy
GroupParams == { p \in Params : p.method = 2 /\ p.dry_run /\ ~p.permanent_delete
                                /\ ~p.delete_without_unsubscribe }

\* any search result, any of its messages failing to be fetched, and a
\* history with or without the sender "b"
InitGroup ==
  /\ mailbox \in GroupMailboxes
  /\ unfetchable \in SUBSET Ids(mailbox)
  /\ mail = NoMail
  /\ history_file \in { <<>>, [k \in { <<"b">> } |-> HistoryRecord(k, TRUE, Http1, 0)] }
  /\ unsubscribe_history = history_file
  /\ InitRun

NextGroup ==
  \/ \E p \in GroupParams : StartBySender(p)
  \/ SenderInHistory
  \/ SenderNoLinks
  \/ SenderPreview
  \/ FinishBySender

\* a preview by sender: the search, the grouping, the walk over the groups
SpecGroup == InitGroup /\ [][NextGroup]_vars

\* the places (group, position) where the message of that id stands
Places(id) ==
  { <<i, j>> \in (1..Len(sender_groups)) \X (1..MaxGroupMsgs + 1) :
      /\ j <= Len(sender_groups[i].messages)
      /\ sender_groups[i].messages[j].id = id }

\* the message of the mailbox a stub of the search result stands for
MessageOf(id) == CHOOSE m \in SeqToSet(mailbox) : m.id = id

KeyOf(id) == SenderKey(get_sender_info(MessageOf(id)))

SameGroup(id1, id2) == \E p1 \in Places(id1), p2 \in Places(id2) : p1[1] = p2[1]

\* every message held by a group is one of the search result
GroupsHoldInput ==
  \A i \in 1..Len(sender_groups) :
     /\ sender_groups[i].messages # <<>>
     /\ Ids(sender_groups[i].messages) \subseteq SeqToSet(messages)

\* C16: once the search result has been grouped, every message of it stands
\* in exactly one group, once, the groups hold nothing else, and two
\* messages are in one group exactly when their sender keys are equal.
C16_GroupingIsPartition ==
  pc # "idle" =>
     /\ GroupsHoldInput
     /\ \A id \in SeqToSet(messages) : Cardinality(Places(id)) = 1
     /\ \A id1, id2 \in SeqToSet(messages) :
           SameGroup(id1, id2) <=> KeyOf(id1) = KeyOf(id2)

\* C16 as amended: every message whose details were fetched stands in
\* exactly one group, once; a message whose get failed stands in none; the
\* groups hold nothing else; two fetched messages are in one group exactly
\* when their sender keys are equal.
C16_FetchedArePartitioned ==
  pc # "idle" =>
     /\ GroupsHoldInput
     /\ \A id \in SeqToSet(messages) :
           Cardinality(Places(id)) = IF id \in unfetchable THEN 0 ELSE 1
     /\ \A id1, id2 \in SeqToSet(messages) \ unfetchable :
           SameGroup(id1, id2) <=> KeyOf(id1) = KeyOf(id2)

C16_Witness ==
  /\ pc = "by_sender"
  /\ Len(messages) = 3
  /\ unfetchable = {2}
  /\ Len(sender_groups) = 1
  /\ sender_groups[1].key = <<"a">>
  /\ MessageOf(1).from = <<"A", " ">>
  /\ MessageOf(3).from = <<"a">>
  /\ Ids(sender_groups[1].messages) = {1, 3}

\* where the stub of that id stands in the search result
Position(id) == CHOOSE k \in 1..Len(messages) : messages[k] = id

\* the groups the walk has passed that were not in the history
Examined ==
  { i \in 1..Len(sender_groups) :
      /\ i < gi
      /\ ~is_already_unsubscribed(unsubscribe_history, sender_groups[i].email) }

\* C17: the groups come in descending order of their number of messages,
\* groups of equal size in the order their first messages were seen; the
\* messages of a group are in search order; and the message links are
\* extracted from is the first message of its group.
C17_OrderAndRepresentative ==
  pc # "idle" =>
     /\ \A i, j \in 1..Len(sender_groups) :
           i < j =>
             /\ Len(sender_groups[i].messages) >= Len(sender_groups[j].messages)
             /\ Len(sender_groups[i].messages) = Len(sender_groups[j].messages) =>
                  Position(sender_groups[i].messages[1].id)
                     < Position(sender_groups[j].messages[1].id)
     /\ \A i \in 1..Len(sender_groups) :
           \A j, k \in 1..Len(sender_groups[i].messages) :
              j < k => Position(sender_groups[i].messages[j].id)
                          < Position(sender_groups[i].messages[k].id)
     /\ log.extracted = { sender_groups[i].messages[1].id : i \in Examined }

C17_Witness ==
  /\ pc = "done"
  /\ Len(sender_groups) = 2
  /\ Len(sender_groups[1].messages) = 2
  /\ sender_groups[1].messages[1].id = 2
  /\ sender_groups[2].messages[1].id = 1
  /\ log.extracted = {1, 2}
  /\ MessageOf(3).hdr # MessageOf(2).hdr

(* ------------------- one attempt per sender, by message ----------------- *)
ByMessage == params.method = 1 /\ pc \in {"by_message", "done"}

\* the messages the loop has passed whose details were fetched
Passed == { messages[k] : k \in 1..(mi - 1) } \ unfetchable

HasLink(id) == extract_unsubscribe_links(MessageOf(id)) # {}

\* the fetched messages of the same sender that stand before this one
EarlierOfSender(id) ==
  { e \in SeqToSet(messages) \ unfetchable :
      Position(e) < Position(id) /\ KeyOf(e) = KeyOf(id) }

\* the fetched messages that come first for their sender
FirstOfSender == { id \in SeqToSet(messages) \ unfetchable : EarlierOfSender(id) = {} }

\* C18: in a per-message run, links are extracted and attempt_unsubscribe is
\* called only for a message that is the first fetched one of its sender in
\* the search result.
C18_OnlyFirstMessageOfSender ==
  ByMessage =>
     /\ log.extracted \subseteq FirstOfSender
     /\ log.invokedFor \subseteq FirstOfSender

\* C18 as amended: in a per-message run a sender counts as seen from the
\* first fetched message of theirs in which a link is found. Links are
\* extracted from every fetched message of a sender up to and including that
\* one and from none after it; in a live run attempt_unsubscribe is called
\* for that message and no other, so at most once per sender; in a preview
\* it is not called.
C18_OneAttemptPerSender ==
  ByMessage =>
     /\ log.extracted =
          { id \in Passed : \A e \in EarlierOfSender(id) : ~HasLink(e) }
     /\ log.invokedFor =
          IF params.dry_run THEN {}
          ELSE { id \in Passed : HasLink(id) /\ \A e \in EarlierOfSender(id) : ~HasLink(e) }
     /\ \A id1, id2 \in log.invokedFor : KeyOf(id1) = KeyOf(id2) => id1 = id2

C18_Witness ==
  /\ ByMessage
  /\ pc = "done"
  /\ ~params.dry_run
  /\ Len(messages) = 2
  /\ MessageOf(1).from = <<"a">>
  /\ MessageOf(2).from = <<"A", " ">>
  /\ ~HasLink(1)
  /\ log.extracted = {1, 2}
  /\ log.invokedFor = {2}

(* --------------------- failing calls and the batch --------------------- *)
\* a new installation, or one that has dealt with the sender "b" before
InitFailing ==
  /\ mailbox \in Mailboxes
  /\ unfetchable \in { u \in SUBSET Ids(mailbox) : Cardinality(u) <= 1 }
  /\ mail = NoMail
  /\ history_file \in { <<>>, [k \in { <<"b">> } |-> HistoryRecord(k, FALSE, Http1, 0)] }
  /\ unsubscribe_history = history_file
  /\ InitRun

\* one run of either strategy, any of its mail calls failing
SpecFailing == InitFailing /\ [][Next]_vars

\* the groups or messages the loop has dealt with
Handled ==
  IF params.method = 2
  THEN UNION { GroupIds(sender_groups[i]) : i \in 1..(gi - 1) }
  ELSE { messages[k] : k \in 1..(mi - 1) }

\* C19: a get, label, trash or delete call that fails for one message does
\* not end the run: a run under way can always take its next step, the
\* finished run has its summary and has dealt with every group (per sender)
\* or every message (per message), every trash/delete call that did not
\* fail took effect, and the count of removed messages of a per-sender run
\* is the number of trash/delete calls that succeeded.
C19_FailedCallDoesNotAbort ==
  Running =>
     /\ (pc # "done" => ENABLED Steps)
     /\ mail.trashed \cup mail.deleted = RemoveCalls \ log.raised
     /\ mail.labelled = log.label \ log.raised
     /\ (params.method = 2 =>
           counts.total_deleted = Cardinality(RemoveCalls \ log.raised))
     /\ (pc = "done" /\ messages # <<>>) =>
           /\ summary # NoSummary
           /\ (params.method = 2 =>
                 /\ gi = Len(sender_groups) + 1
                 /\ counts.processed_count = Len(sender_groups)
                 /\ Handled = SeqToSet(messages) \ unfetchable)
           /\ (params.method = 1 =>
                 /\ mi = Len(messages) + 1
                 /\ Handled = SeqToSet(messages))

C19_Witness ==
  /\ pc = "done"
  /\ params.method = 2
  /\ Len(sender_groups) = 1
  /\ log.trash = {1, 2}
  /\ log.raised = {1}
  /\ mail.trashed = {2}
  /\ counts.total_deleted = 1
  /\ summary # NoSummary

(* ---------------------------- rate limiting ---------------------------- *)
\* min_delay = 0.1 s, in ticks of 0.05 s
MinDelay == 2

\* the clock is followed up to MaxTime ticks
MaxTime == 7

\* calls made through rate_limit_api_call: messages.get, .trash, .delete
LimitedKinds == {"get", "trash", "delete"}

\* calls made without it: messages.list in search_emails; labels.list,
\* labels.create and messages.modify in label_message
UnlimitedKinds == {"list", "labels.list", "labels.create", "modify"}

\* rate_limit_api_call: the time at which it returns
rate_limit_api_call(current_time, last, min_delay) ==
  IF current_time - last < min_delay
  THEN current_time + (min_delay - (current_time - last))
  ELSE current_time

\* the call made at time t, and what is known of the rate-limited call
\* released before it
RemoteCall(kind, t) ==
  [kind |-> kind, at |-> t, limited |-> kind \in LimitedKinds,
   since |-> t - last_api_call,
   after |-> IF remote.limited THEN remote.kind ELSE remote.after]

\* a process just started: last_api_call = 0, and the clock is far from 0
InitRate ==
  /\ history_file = <<>>
  /\ unsubscribe_history = history_file
  /\ file_state = "valid"
  /\ pc = "idle"
  /\ NoBatch
  /\ prev = StartOfRun(Snapshot)
  /\ store_op = NoOp
  /\ att = NoAttempt
  /\ extraction = NoExtraction
  /\ clock = MinDelay
  /\ last_api_call = 0
  /\ remote = NoRemote

rateFrame == <<batchVars, pc, history_file, unsubscribe_history, file_state,
               store_op, att>>

\* time passes: a request is under way, a page is fetched, output is printed
Tick ==
  /\ clock < MaxTime
  /\ clock' = clock + 1
  /\ UNCHANGED <<rateFrame, last_api_call, remote>>

\* search_emails: one messages.list per location, before anything else
SearchCall ==
  /\ remote.kind \in {"none", "list"}
  /\ remote' = RemoteCall("list", clock)
  /\ UNCHANGED <<rateFrame, clock, last_api_call>>

\* get_message_details, move_to_trash, delete_messages: the throttle, then
\* the call
LimitedCall ==
  /\ remote.kind # "none"
  /\ \E kind \in LimitedKinds :
       LET released == rate_limit_api_call(clock, last_api_call, MinDelay)
       IN  /\ kind \in {"trash", "delete"} => RemoteCall(kind, released).after # "none"
           /\ released <= MaxTime
           /\ clock' = released
           /\ remote' = RemoteCall(kind, released)
           /\ last_api_call' = released
  /\ UNCHANGED rateFrame

\* label_message: labels.list, labels.create when the label is missing,
\* messages.modify
LabelCall ==
  /\ \E kind \in {"labels.list", "labels.create", "modify"} :
       /\ kind = "labels.list" =>
             /\ RemoteCall(kind, clock).after = "get"
             /\ remote.kind \in {"get", "modify"}
       /\ kind = "labels.create" => remote.kind = "labels.list"
       /\ kind = "modify" => remote.kind \in {"labels.list", "labels.create"}
       /\ remote' = RemoteCall(kind, clock)
  /\ UNCHANGED <<rateFrame, clock, last_api_call>>

NextRate == Tick \/ SearchCall \/ LimitedCall \/ LabelCall

\* the remote calls of a run and the times at which they start
SpecRate == InitRate /\ [][NextRate]_vars

\* C20: every call to the mail service that follows a rate-limited call
\* starts at least min_delay after that call was released.
C20_MinDelayBeforeEachCall ==
  (remote.kind # "none" /\ remote.after # "none") => remote.since >= MinDelay

(* --------------------------- link extraction --------------------------- *)
\* most <...> tokens in a header value
MaxTokens == 2
\* most places of a body that hold a link
MaxBody == 1

\* "<https://>": a token that starts with http and has nothing after it
NoHost == [scheme |-> "https", target |-> ""]

Tokens == {Mailto, Http1, Http2, NoHost}

HeaderNames == {"List-Unsubscribe", "list-unsubscribe", "LIST-UNSUBSCRIBE", "Subject"}

\* header values of one to MaxTokens tokens, repeated tokens included
HeaderValues == UNION { [1..n -> Tokens] : n \in 1..MaxTokens }

\* places of a body: a bare URL with or without one of the words, an href
\* with the word, one whose value ends with '>', one that is a mailto link
BodyItems ==
  { [kind |-> "url",  text |-> Http1,  word |-> TRUE,  gt |-> FALSE],
    [kind |-> "url",  text |-> Http2,  word |-> FALSE, gt |-> FALSE],
    [kind |-> "href", text |-> Http1,  word |-> TRUE,  gt |-> FALSE],
    [kind |-> "href", text |-> Http1,  word |-> TRUE,  gt |-> TRUE],
    [kind |-> "href", text |-> Mailto, word |-> TRUE,  gt |-> FALSE] }

Bodies == UNION { [1..n -> BodyItems] : n \in 0..MaxBody }

ExtractMessages ==
  { [id |-> 1, from |-> <<"a">>, hname |-> n, hdr |-> h, body |-> b]
      : n \in HeaderNames, h \in HeaderValues, b \in Bodies }

\* one message, fetched; nothing else has happened
InitExtract ==
  /\ mailbox \in { <<m>> : m \in ExtractMessages }
  /\ unfetchable = {}
  /\ mail = NoMail
  /\ history_file = <<>>
  /\ unsubscribe_history = history_file
  /\ InitRun

\* extract_unsubscribe_links(message)
Extract ==
  /\ ~extraction.done
  /\ LET links == extract_unsubscribe_links(mailbox[1])
     IN  extraction' = [done |-> TRUE, links |-> links,
                        copies |-> [l \in links |-> Copies(mailbox[1], l)]]
  /\ UNCHANGED <<mailbox, unfetchable, mail, history_file, unsubscribe_history, run,
                 pc, params, messages, sender_groups, gi, phase, pending, mi,
                 processed_senders, counts, summary, log, invokedEarlier, prev,
                 file_state, store_op, att, clock, last_api_call, remote>>

NextExtract == Extract

\* extract_unsubscribe_links on every message of ExtractMessages
SpecExtract == InitExtract /\ [][NextExtract]_vars

\* the message has a List-Unsubscribe header, whatever the case of its name
HasListUnsubscribe == LowerName(mailbox[1].hname) = "list-unsubscribe"

\* the tokens of that header that start with "http"
HttpTokens == { t \in SeqToSet(mailbox[1].hdr) : t.scheme \in {"http", "https"} }

NoDuplicates == \A l \in extraction.links : extraction.copies[l] = 1

WordItems ==
  { mailbox[1].body[i] : i \in { j \in 1..Len(mailbox[1].body) : mailbox[1].body[j].word } }

LiveSenderParams == { p \in Params : p.method = 2 /\ ~p.dry_run }

\* the save of the record fails with an IOError: a warning, and the run
\* goes on to the cleanup
SenderRecordSaveFails ==
  /\ pc = "by_sender"
  /\ phase = "record"
  /\ \E outcome \in SaveOutcomes \ {"ok"} :
       /\ unsubscribe_history' =
            add_to_unsubscribe_history(unsubscribe_history, Group.email,
                                       pending.success, pending.url, run)
       /\ history_file' = SavedContent(outcome, history_file, unsubscribe_history')
       /\ file_state' = SavedState(outcome, file_state)
  /\ log' = [log EXCEPT !.hist = @ \cup {SenderKey(Group.email)},
                        !.failed = IF pending.success THEN @ ELSE @ \cup {Group.key},
                        !.saveFailed = @ \cup {SenderKey(Group.email)}]
  /\ counts' = IF pending.success
               THEN [counts EXCEPT !.success_count = @ + 1] ELSE counts
  /\ phase' = "cleanup"
  /\ UNCHANGED <<mailbox, unfetchable, store_op, att, clock, last_api_call, remote,
                 extraction, mail, runsVars, pc, params, messages, sender_groups, gi,
                 pending, mi, processed_senders, summary>>

\* KeyboardInterrupt between two statements of the loop: main prints
\* "Operation cancelled by user." and the program ends
Interrupt ==
  /\ pc = "by_sender"
  /\ pc' = "interrupted"
  /\ UNCHANGED <<envVars, mail, histVars, runsVars, params, messages, sender_groups,
                 gi, phase, pending, mi, processed_senders, counts, summary, log>>

\* KeyboardInterrupt inside add_to_unsubscribe_history: before the file is
\* opened, or while json.dump writes it
InterruptSave ==
  /\ pc = "by_sender"
  /\ phase = "record"
  /\ \E outcome \in {"open_failed", "write_failed"} :
       /\ unsubscribe_history' =
            add_to_unsubscribe_history(unsubscribe_history, Group.email,
                                       pending.success, pending.url, run)
       /\ history_file' = SavedContent(outcome, history_file, unsubscribe_history')
       /\ file_state' = SavedState(outcome, file_state)
  /\ pc' = "interrupted"
  /\ UNCHANGED <<mailbox, unfetchable, store_op, att, clock, last_api_call, remote,
                 extraction, mail, runsVars, params, messages, sender_groups, gi,
                 phase, pending, mi, processed_senders, counts, summary, log>>

\* the first n messages of the group
FirstIds(g, n) == { g.messages[j].id : j \in 1..n }

\* KeyboardInterrupt inside the cleanup of a group: the calls for the first
\* messages of the group have been made, the rest has not
InterruptCleanup ==
  /\ pc = "by_sender"
  /\ phase = "cleanup"
  /\ CleanupAction(params, pending.success) # "none"
  /\ \E n \in 0..(Len(Group.messages) - 1) :
       \E failing \in SUBSET FirstIds(Group, n) :
          IF CleanupAction(params, pending.success) = "remove"
          THEN /\ mail' = Remove(params, mail, FirstIds(Group, n), failing)
               /\ log' = LogRemove(params, log, FirstIds(Group, n), failing)
          ELSE /\ mail' = label_messages(mail, FirstIds(Group, n), failing)
               /\ log' = [log EXCEPT !.label = @ \cup FirstIds(Group, n),
                                     !.raised = @ \cup failing]
  /\ pc' = "interrupted"
  /\ UNCHANGED <<envVars, histVars, runsVars, params, messages, sender_groups, gi,
                 phase, pending, mi, processed_senders, counts, summary>>

\* a new installation, or one that has dealt with the sender "b" before
InitInterrupt == InitFailing

NextInterrupt ==
  \/ \E p \in LiveSenderParams : StartBySender(p)
  \/ SenderInHistory \/ SenderNoLinks \/ SenderInvoke
  \/ SenderRecord \/ SenderRecordSaveFails \/ SenderCleanup \/ FinishBySender
  \/ Interrupt \/ InterruptSave \/ InterruptCleanup

\* a live per-sender run that can be interrupted anywhere and whose saves
\* can fail
SpecInterrupt == InitInterrupt /\ [][NextInterrupt]_vars

\* a live per-sender run: under way, finished or interrupted
LiveSenderRun ==
  /\ pc \in {"by_sender", "done", "interrupted"}
  /\ params.method = 2 /\ ~params.dry_run

\* the groups with links some message of which got a label, trash or
\* delete call
CleanedLinked ==
  { i \in 1..Len(sender_groups) :
      /\ sender_groups[i].key \in log.linked
      /\ GroupIds(sender_groups[i]) \cap (log.label \cup RemoveCalls) # {} }

\* the attempt for the sender has returned and its record is in memory
InvokedAndRecorded(k) ==
  /\ k \in InvokedKeys
  /\ k \in log.hist
  /\ k \in DOMAIN unsubscribe_history
  /\ unsubscribe_history[k].timestamp = run

\* the record of the sender is in the history file
Persisted(k) ==
  /\ file_state = "valid"
  /\ k \in DOMAIN history_file
  /\ history_file[k] = unsubscribe_history[k]

\* nothing that was done is undone: the calls that succeeded show in the
\* mailbox, the records written are in memory
NothingRolledBack ==
  /\ mail.trashed \cup mail.deleted = RemoveCalls \ log.raised
  /\ mail.labelled = log.label \ log.raised
  /\ \A k \in log.hist : k \in DOMAIN unsubscribe_history

\* C22: in a live per-sender run, interrupted or not, a group with links has
\* a label, trash or delete call only after the attempt for its sender has
\* returned and the record has been written and is in the history file;
\* no call that succeeded and no record written is undone by an interrupt.
C22_InvokeRecordCleanup ==
  LiveSenderRun =>
     /\ \A i \in CleanedLinked :
           /\ InvokedAndRecorded(sender_groups[i].key)
           /\ Persisted(sender_groups[i].key)
     /\ NothingRolledBack

(* --------------------------- cleanup policy ---------------------------- *)
\* C23: in a run of either strategy messages().delete is called, and a
\* message deleted, only with delete_after_unsubscribe and permanent_delete
\* both set; messages().trash is called, and a message trashed, only with
\* delete_after_unsubscribe set and permanent_delete not set; without
\* delete_after_unsubscribe neither is called.
C23_CleanupPolicy ==
  Running =>
     /\ (log.del # {} \/ mail.deleted # {}) =>
           (params.delete_after_unsubscribe /\ params.permanent_delete)
     /\ (log.trash # {} \/ mail.trashed # {}) =>
           (params.delete_after_unsubscribe /\ ~params.permanent_delete)
     /\ ~params.delete_after_unsubscribe =>
           (RemoveCalls = {} /\ mail.trashed = {} /\ mail.deleted = {})

C23_Witness ==
  /\ pc = "done"
  /\ params.method = 1
  /\ params.delete_after_unsubscribe /\ params.permanent_delete
  /\ log.del = {1, 2}
  /\ mail.deleted = {1, 2}
  /\ log.trash = {}

(* ------------------------------ the summary ---------------------------- *)
\* the attempts of the run that returned success, and those that did not
Succeeded == { e \in log.http : e.success }
NotSucceeded == { e \in log.http : ~e.success }

\* C24: the summary of a live per-sender run reports as successful the
\* number of senders whose attempt returned success and as failed the
\* number of senders whose attempt returned failure; the two add up to the
\* number of attempts of the run.
C24_SummaryCountsAttempts ==
  (pc = "done" /\ params.method = 2 /\ ~params.dry_run /\ summary.kind = "by_sender") =>
     /\ summary.successful = Cardinality(Succeeded)
     /\ summary.failed = Cardinality(NotSucceeded)
     /\ summary.successful + summary.failed = Cardinality(log.http)

====
